---- MODULE Spec2Model ----
(***************************************************************************)
(* The trust-network accrual aggregation of crc-notifier:                  *)
(*   - the hook useCircles (fetchUserData, getLastPersonalMintTime and its  *)
(*     own calculateUnclaimedCRC) of src/src/components/crc-notifier.tsx,   *)
(*   - the component CRCNotifier (handleAddressSubmit and what it shows),   *)
(*   - the utilities of src/unnamed/part_000 (calculateUnclaimedCRC,        *)
(*     validateAndNormalizeInput, retryContractCall).                       *)
(*                                                                         *)
(* Time is counted in whole hours; Now is the value of `new Date()` during  *)
(* one aggregation.  A Date is the hour it denotes, NoTime is null.         *)
(* Strings of the program are TLA+ strings; the conversions on them         *)
(* (trim, toLowerCase, getAddress) are tables over the strings used here.   *)
(* validateAndNormalizeInput is also given on sequences of characters, and  *)
(* retryContractCall and the reminder classifiers have specifications of    *)
(* their own (SpecNorm, SpecRetry, SpecRemind).                             *)
(***************************************************************************)
EXTENDS Integers, Sequences, FiniteSets, TLC

-----------------------------------------------------------------------------
(* Bounds of the model                                                     *)

\* the hour of `new Date()`
Now == 200
\* how far in the future a last-claim time may lie
MaxAhead == 2
\* the longest relation list the ledger returns
MaxRel == 3
\* the largest number of remote reads that fail during one aggregation
MaxFail == 2
\* the largest maxRetries a caller passes to retryContractCall
MaxAttempts == 4
\* the hexadecimal digits of an address (40 in the program), and the longest
\* input typed between its leading and trailing blanks
AddrDigits == 2
MaxInputLen == 4
\* the longest page of transactions given to getLastPersonalMintTime
MaxHistory == 2

-----------------------------------------------------------------------------
(* Constants of the program                                                *)

CRC_PER_HOUR == 1
DAILY_CRC_ALLOCATION == 24
HOURLY_CRC_ALLOCATION == 1
MAX_UNCLAIMED_DAYS == 7
maxRetries == 3
baseDelay == 1000

NoTime == -1

Min(a, b) == IF a <= b THEN a ELSE b
Max(a, b) == IF a >= b THEN a ELSE b

-----------------------------------------------------------------------------
(* The accrual calculators                                                 *)

Amount(n) == [ok |-> TRUE, amount |-> n, error |-> ""]
Thrown(e) == [ok |-> FALSE, amount |-> 0, error |-> e]

\* the utility without its cap
calculateUnclaimedCRC_nocap(lastPersonalMintTime) ==
  IF lastPersonalMintTime = NoTime THEN Thrown("NoClaimHistory")
  ELSE LET hoursSinceLastClaim == Now - lastPersonalMintTime
       IN  IF hoursSinceLastClaim < 0 THEN Thrown("FutureTimestamp")
           ELSE Amount(hoursSinceLastClaim * HOURLY_CRC_ALLOCATION)

\* part_000:110-135, the utility.  `!lastPersonalMintTime` throws, negative
\* hours throw, the rest is capped at MAX_UNCLAIMED_DAYS * 24 hours.
calculateUnclaimedCRC(lastPersonalMintTime) ==
  IF lastPersonalMintTime = NoTime THEN Thrown("NoClaimHistory")
  ELSE LET hoursSinceLastClaim == Now - lastPersonalMintTime
           maxHours == MAX_UNCLAIMED_DAYS * 24
           cappedHours == Min(hoursSinceLastClaim, maxHours)
       IN  IF hoursSinceLastClaim < 0 THEN Thrown("FutureTimestamp")
           ELSE Amount(cappedHours * HOURLY_CRC_ALLOCATION)

\* the hook's calculator taking a missing last-claim time for "nothing accrued"
useCircles_calculateUnclaimedCRC_nullIsZero(lastClaimTime) ==
  IF lastClaimTime = NoTime THEN Amount(0)
  ELSE Amount(Min(Max(0, Now - lastClaimTime), 7 * 24) * CRC_PER_HOUR)

\* the hook's calculator without Math.max and Math.min
useCircles_calculateUnclaimedCRC_unclamped(lastClaimTime) ==
  IF lastClaimTime = NoTime THEN Thrown("NoClaimHistory")
  ELSE Amount((Now - lastClaimTime) * CRC_PER_HOUR)

\* crc-notifier.tsx:540-560, the calculator useCircles calls.  It throws on
\* null only; hours are clamped by Math.max(0, .) and Math.min(., 7 * 24).
useCircles_calculateUnclaimedCRC(lastClaimTime) ==
  IF lastClaimTime = NoTime THEN Thrown("NoClaimHistory")
  ELSE LET hoursSinceLastClaim == Now - lastClaimTime
           maxHours == 7 * 24
           cappedHours == Min(Max(0, hoursSinceLastClaim), maxHours)
       IN  Amount(cappedHours * CRC_PER_HOUR)

-----------------------------------------------------------------------------
(* The reminder classifiers, part_000:63-78.  Their argument is a number of *)
(* CRC that need not be whole: it is counted in thousandths of a CRC.       *)

\* a whole number of CRC as an argument of the classifiers
Thousandths(crc) == crc * 1000

\* a threshold test that leaves the boundary out
needsReminder_strict(unclaimed) == unclaimed > Thousandths(DAILY_CRC_ALLOCATION)

\* part_000:63-65
needsReminder(unclaimed) == unclaimed >= Thousandths(DAILY_CRC_ALLOCATION)

\* part_000:70-78; line 77 is the value for an amount under one day
getReminderPriority(unclaimed) ==
  IF unclaimed >= Thousandths(DAILY_CRC_ALLOCATION * 5) THEN "urgent"
  ELSE IF unclaimed >= Thousandths(DAILY_CRC_ALLOCATION * 3) THEN "high"
  ELSE IF unclaimed >= Thousandths(DAILY_CRC_ALLOCATION * 2) THEN "medium"
  ELSE IF unclaimed >= Thousandths(DAILY_CRC_ALLOCATION) THEN "low"
  ELSE "low"

-----------------------------------------------------------------------------
(* Strings: addresses and their conversions                                *)

\* String.prototype.toLowerCase on the addresses and handles of the model
toLowerCase(s) ==
  CASE s = "0xAa" -> "0xaa"
    [] s = "0xBb" -> "0xbb"
    [] s = "0xCc" -> "0xcc"
    [] s = "0xDd" -> "0xdd"
    [] s = "0xEe" -> "0xee"
    [] s = "0xFf" -> "0xff"
    [] s = "0x1A" -> "0x1a"
    [] s = "0x2B" -> "0x2b"
    [] s = "0x3C" -> "0x3c"
    [] s = "0x4D" -> "0x4d"
    [] s = "Alice.ETH" -> "alice.eth"
    [] OTHER -> s

\* two address strings denote the same 20 bytes
SameBytes(a, b) == toLowerCase(a) = toLowerCase(b)

-----------------------------------------------------------------------------
(* The ledger the SDK reads: what a successful read returns.  Its accounts:  *)
(*   0xAa  registered, last mint 3 hours ago, trusts and is trusted          *)
(*   0xFf  registered, last mint this hour; the ledger spells it 0xff in     *)
(*         some of its relations                                             *)
(*   0x1A  registered, never minted    0x2B  registered, mint in the future  *)
(*   0x3C  registered, last mint 180 hours ago, trusts 0x4D and 0xBb         *)
(*   0x4D  profile dan, last mint 24 hours ago                               *)
(*   0xBb  profile bob, last mint 50 hours ago                               *)
(*   0xCc  no profile, no transaction    0xDd  mint stamped one hour ahead   *)
(*   0xEe  never signed up                                                   *)

NoAvatar == [found |-> FALSE, displayName |-> ""]
Avatar(n) == [found |-> TRUE, displayName |-> n]

\* data.getAvatarInfo(address): undefined for an address that never signed up
LedgerAvatar(a) ==
  CASE toLowerCase(a) = "0xaa" -> Avatar("alice")
    [] toLowerCase(a) = "0xff" -> Avatar("frank")
    [] toLowerCase(a) \in {"0x1a", "0x2b", "0x3c"} -> Avatar("")
    [] toLowerCase(a) = "0xbb" -> Avatar("bob")
    [] toLowerCase(a) = "0xdd" -> Avatar("dora")
    [] toLowerCase(a) = "0x4d" -> Avatar("dan")
    [] OTHER -> NoAvatar

\* data.getTotalBalance(address) and data.getTotalBalanceV2(address), in CRC
LedgerBalanceV1(a) ==
  CASE toLowerCase(a) = "0xaa" -> 10
    [] toLowerCase(a) = "0xbb" -> 4
    [] toLowerCase(a) = "0xdd" -> 3
    [] OTHER -> 0

LedgerBalanceV2(a) ==
  CASE toLowerCase(a) = "0xaa" -> 5
    [] toLowerCase(a) = "0xbb" -> 2
    [] toLowerCase(a) = "0xcc" -> 1
    [] toLowerCase(a) = "0xff" -> 8
    [] OTHER -> 0

Tx(m, i, e, t) == [method |-> m, input |-> i, event_type |-> e, timestamp |-> t]

\* the page getTransactionHistory(address, 100).queryNextPage() returns,
\* newest first
LedgerHistory(a) ==
  CASE toLowerCase(a) = "0xaa" ->
         << Tx("transfer", "0xa9059cbb", "", Now - 1),
            Tx("", "", "PersonalMint", Now - 3) >>
    [] toLowerCase(a) = "0xff" ->
         << Tx("personalMint", "0x2c6ba5ca", "", Now) >>
    [] toLowerCase(a) = "0x2b" ->
         << Tx("", "0x2c6ba5ca", "", Now + 1) >>
    [] toLowerCase(a) = "0x3c" ->
         << Tx("personalMint", "", "", Now - 180) >>
    [] toLowerCase(a) = "0xbb" ->
         << Tx("transfer", "0xa9059cbb", "Transfer", Now - 10),
            Tx("personalMint", "0x2c6ba5ca", "", Now - 50),
            Tx("", "", "PersonalMint", Now - 90) >>
    [] toLowerCase(a) = "0xdd" ->
         << Tx("", "0x2c6ba5ca00", "", Now + 1) >>
    [] toLowerCase(a) = "0x4d" ->
         << Tx("personalMint", "0x2c6ba5ca", "", Now - 24) >>
    [] OTHER -> <<>>

Rel(a, b) == [truster |-> a, trustee |-> b]

\* the entries getTrustRelations(address, 100).queryNextPage() may list for a
\* root: for 0xAa both directions and a self reference, for 0xFf an entry
\* that spells the root in lower case, for 0x3C two counterparts that have
\* accrued a day and more
RelationPairs(root) ==
  CASE root = "0xAa" ->
         { Rel("0xAa", "0xBb"), Rel("0xBb", "0xAa"), Rel("0xAa", "0xCc"),
           Rel("0xAa", "0xAa") }
    [] root = "0xFf" ->
         { Rel("0xFf", "0xDd"), Rel("0xff", "0xDd") }
    [] root = "0x3C" ->
         { Rel("0x3C", "0x4D"), Rel("0x3C", "0xBb") }
    [] OTHER -> {}

RelationLists(root) == UNION { [1..n -> RelationPairs(root)] : n \in 0..MaxRel }

-----
(* getLastPersonalMintTime, crc-notifier.tsx:485-537                        *)

PERSONAL_MINT_FUNCTION_SIGNATURE == "0x2c6ba5ca"

\* input.startsWith(PERSONAL_MINT_FUNCTION_SIGNATURE) on the inputs used here
startsWithSignature(input) ==
  input \in {"0x2c6ba5ca", "0x2c6ba5ca00"}

\* the filter of lines 503-512
isPersonalMint(tx) ==
  \/ tx.method = "personalMint"
  \/ startsWithSignature(tx.input)
  \/ tx.event_type = "PersonalMint"

\* a search that goes on to the first match that carries a timestamp
lastMintOf_firstStamped(transactions) ==
  LET stamped == SelectSeq(transactions,
                           LAMBDA tx : isPersonalMint(tx) /\ tx.timestamp # 0)
  IN  IF Len(stamped) = 0 THEN NoTime ELSE stamped[1].timestamp

\* lines 503-527 on a page that was read: the first match, and null when
\* there is none or its timestamp is falsy
lastMintOf(transactions) ==
  LET personalMintTransactions == SelectSeq(transactions, isPersonalMint)
  IN  IF Len(personalMintTransactions) = 0 THEN NoTime
      ELSE IF personalMintTransactions[1].timestamp # 0
           THEN personalMintTransactions[1].timestamp
           ELSE NoTime

\* the whole function: a failed read is caught (528-534) and gives null
getLastPersonalMintTime(outcome, transactions) ==
  IF outcome = "ok" THEN lastMintOf(transactions) ELSE NoTime

-----------------------------------------------------------------------------
(* validateAndNormalizeInput, part_000:316-352, on the inputs of the model  *)

Inputs ==
  {"", "  ", " 0xaa ", "0xAa", "0xFf", "0x1A", "0x2B", "0x3C", "0xEe",
   "Alice.ETH", "xyz"}

\* String.prototype.trim
trim(s) ==
  CASE s = "  " -> ""
    [] s = " 0xaa " -> "0xaa"
    [] OTHER -> s

\* ethers.isAddress: hexadecimal of the right length, all lower case or
\* with a valid checksum
isValidAddress(s) ==
  s \in {"0xaa", "0xAa", "0xFf", "0x1A", "0x2B", "0x3C", "0xEe"}

\* part_000:17-19
isValidENS(s) == s \in {"Alice.ETH", "alice.eth"}

\* ethers.getAddress: the checksum form
normalizeAddress(s) ==
  CASE s = "0xaa" -> "0xAa"
    [] OTHER -> s

validateAndNormalizeInput(input) ==
  LET trimmed == trim(input)
  IN  IF trimmed = ""
      THEN [isValid |-> FALSE, normalizedInput |-> "",
            error |-> "Please enter an address or ENS name"]
      ELSE IF isValidAddress(trimmed)
      THEN [isValid |-> TRUE, normalizedInput |-> normalizeAddress(trimmed),
            error |-> ""]
      ELSE IF isValidENS(trimmed)
      THEN [isValid |-> TRUE, normalizedInput |-> toLowerCase(trimmed),
            error |-> ""]
      ELSE [isValid |-> FALSE, normalizedInput |-> trimmed,
            error |-> "Please enter a valid Ethereum address or ENS name"]

-----------------------------------------------------------------------------
(* State                                                                   *)

VARIABLES
  \* CRCNotifier, crc-notifier.tsx:53-56
  isLoading, circlesData, error,
  \* the connections sendReminder was called for, in the order of the calls
  reminded,
  \* useCircles, crc-notifier.tsx:478-482
  isInitialized, hookIsLoading, hookError,
  \* the call of fetchUserData in flight: where it is suspended, its
  \* argument and its locals
  pc, address, totalBalance, trustRelations, idx, connectionAvatarInfo,
  connectionBalance, trustedConnections, userLastClaimTime, result,
  \* the remote reads: every read issued so far, those outstanding, those
  \* that settled in the last step, and how many have failed
  issued, inflight, settled, failures,
  \* how the root's own reads ended, and the counterparts a read failed for
  rootOutcome, failedAddrs,
  \* the accrual calculators applied to one last-claim time
  calcPc, calcInput, hookResult, utilResult,
  \* one call of retryContractCall, one amount given to the reminder
  \* classifiers, one input given to validateAndNormalizeInput
  retry, remind, norm,
  \* one call of getLastPersonalMintTime
  mint,
  \* the calls of fetchUserData the component has started, oldest first
  calls

uiVars == <<isLoading, circlesData, error, isInitialized, hookIsLoading, hookError>>
fetchVars == <<pc, address, totalBalance, trustRelations, idx,
               connectionAvatarInfo, connectionBalance, trustedConnections,
               userLastClaimTime, result>>
readVars == <<issued, inflight, settled, failures, rootOutcome, failedAddrs>>
calcVars == <<calcPc, calcInput, hookResult, utilResult>>
unitVars == <<retry, remind, norm, mint, calls>>
vars == <<uiVars, reminded, fetchVars, readVars, calcVars, unitVars>>

NoResult == [kind |-> "none", data |-> <<>>, error |-> ""]
NoRootOutcome ==
  [avatar |-> "unread", balanceV1 |-> "unread", balanceV2 |-> "unread",
   trust |-> "unread", history |-> "unread"]

\* a remote read, and a read that settled
Read(op, a) == [op |-> op, addr |-> a, attempt |-> 1]
Settled(op, a, o) == [op |-> op, addr |-> a, attempt |-> 1, outcome |-> o]

\* how a read may end: the ledger answers, signals a rate limit, or the
\* transport fails
Outcomes == IF failures < MaxFail THEN {"ok", "rateLimit", "networkError"} ELSE {"ok"}
Failed(o) == o # "ok"
Count(S) == Cardinality({o \in S : Failed(o)})

InitIdle ==
  /\ isLoading = FALSE /\ circlesData = <<>> /\ error = ""
  /\ reminded = <<>>
  /\ isInitialized = FALSE /\ hookIsLoading = FALSE /\ hookError = ""
  /\ pc = "idle" /\ address = "" /\ totalBalance = 0 /\ trustRelations = <<>>
  /\ idx = 0 /\ connectionAvatarInfo = NoAvatar /\ connectionBalance = 0
  /\ trustedConnections = <<>> /\ userLastClaimTime = NoTime
  /\ result = NoResult
  /\ issued = <<>> /\ inflight = {} /\ settled = {} /\ failures = 0
  /\ rootOutcome = NoRootOutcome /\ failedAddrs = {}

NoAccrual == Thrown("")

\* no calculator is being applied
CalcOff ==
  /\ calcPc = "off" /\ calcInput = NoTime
  /\ hookResult = NoAccrual /\ utilResult = NoAccrual

NoError == [code |-> 0, message |-> "", status |-> 0]
NoRetry ==
  [pc |-> "off", maxRetries |-> 0, baseDelay |-> 0, i |-> 0, calls |-> 0,
   waits |-> <<>>, errors |-> <<>>, thrown |-> NoError]
NoRemind == [pc |-> "off", unclaimed |-> 0, needs |-> FALSE, priority |-> ""]
NoValidation == [isValid |-> FALSE, normalizedInput |-> <<>>, error |-> ""]
NoNorm == [pc |-> "off", input |-> <<>>, result |-> NoValidation]
NoMint == [pc |-> "off", outcome |-> "ok", transactions |-> <<>>, time |-> NoTime]

Init ==
  /\ InitIdle
  /\ CalcOff
  /\ retry = NoRetry /\ remind = NoRemind /\ norm = NoNorm
  /\ mint = NoMint /\ calls = <<>>

-----------------------------------------------------------------------------
(* Pieces of fetchUserData, crc-notifier.tsx:593-783                        *)

\* what a failed read throws
ThrownBy(o) == IF o = "rateLimit" THEN "rate limit exceeded" ELSE "Failed to fetch"

\* a profile check that lets every root pass
NotSignedUp_never(avatarInfo) == FALSE

\* line 605: `if (!avatarInfo)`

NotSignedUp(avatarInfo) == ~avatarInfo.found

\* a balance that counts whether or not its read was fulfilled
settledValue_ignoresFailure(outcome, value) == value

\* lines 617-624 and 685-692: a settled balance read counts when fulfilled
settledValue(outcome, value) == IF outcome = "ok" THEN value ELSE 0

\* lines 649-652
otherAddress(relation, root) ==
  IF relation.truster = root THEN relation.trustee ELSE relation.truster

\* lines 658-662
isMutualTrust(relations, other, root) ==
  \E i \in 1..Len(relations) :
     \/ relations[i].truster = other /\ relations[i].trustee = root
     \/ relations[i].truster = root /\ relations[i].trustee = other

\* lines 647-655: the first entry at or after `from` that is no self reference
nextEntry(relations, from, root) ==
  LET rest == {i \in from..Len(relations) : otherAddress(relations[i], root) # root}
  IN  IF rest = {} THEN Len(relations) + 1
      ELSE CHOOSE i \in rest : \A j \in rest : i <= j

\* a counterpart's profile read with no try/catch around it
connectionAvatar_uncaught(outcome, a) ==
  [thrown |-> Failed(outcome), info |-> LedgerAvatar(a)]

\* lines 666-675: the profile read of a counterpart inside its try/catch

connectionAvatar(outcome, a) ==
  [thrown |-> FALSE, info |-> IF outcome = "ok" THEN LedgerAvatar(a) ELSE NoAvatar]

\* lines 716-724
Connection(a, info, balance, unclaimed, lastClaim, mutual) ==
  [address |-> a, name |-> info.displayName, balance |-> balance,
   unclaimed |-> unclaimed, lastClaim |-> lastClaim, isMutualTrust |-> mutual]

\* lines 729-732: keep an entry when it is the first with its address
findIndex(conns, a) ==
  CHOOSE i \in 1..Len(conns) :
     conns[i].address = a /\ \A j \in 1..(i - 1) : conns[j].address # a

RECURSIVE keepFirst(_, _)
keepFirst(conns, i) ==
  IF i > Len(conns) THEN <<>>
  ELSE IF i = findIndex(conns, conns[i].address)
       THEN <<conns[i]>> \o keepFirst(conns, i + 1)
       ELSE keepFirst(conns, i + 1)

\* a snapshot built without the filter of lines 729-732
uniqueConnections_keepsAll(conns) == conns

uniqueConnections(conns) == keepFirst(conns, 1)

\* lines 758-774: the message of the error fetchUserData rethrows
errorMessageOf(message) ==
  CASE message = "Address is not signed up to Circles" ->
         "This address is not registered with Circles"
    [] message = "Failed to fetch" ->
         "Network error - please check your connection"
    [] OTHER -> message

\* part_000:298-311 on the message of an Error
getErrorMessage(message) ==
  CASE message = "Address is not signed up to Circles" ->
         "This address is not signed up to Circles"
    [] OTHER -> message

\* a catch block that records the error and forgets to rethrow it
rejects_noRethrow(message) ==
  /\ hookError' = errorMessageOf(message)
  /\ hookIsLoading' = FALSE
  /\ result' = NoResult
  /\ circlesData' = <<>>
  /\ isLoading' = FALSE
  /\ pc' = "resolved"
  /\ inflight' = {}
  /\ UNCHANGED <<error, isInitialized, issued>>

\* lines 756-780 and the catch of handleAddressSubmit, lines 85-93
rejects(message) ==
  LET errorMessage == errorMessageOf(message)
  IN  /\ hookError' = errorMessage
      /\ hookIsLoading' = FALSE
      /\ result' = [kind |-> "error", data |-> <<>>, error |-> errorMessage]
      /\ error' = getErrorMessage(errorMessage)
      /\ isLoading' = FALSE
      /\ pc' = "rejected"
      /\ inflight' = {}
      /\ UNCHANGED <<circlesData, isInitialized, issued>>

\* lines 748-755 and 778-780, then lines 83-84 and 92 of handleAddressSubmit
resolves(data) ==
  /\ hookIsLoading' = FALSE
  /\ result' = [kind |-> "snapshot", data |-> <<data>>, error |-> ""]
  /\ circlesData' = <<data>>
  /\ isLoading' = FALSE
  /\ pc' = "resolved"
  /\ inflight' = {}
  /\ UNCHANGED <<hookError, error, isInitialized, issued>>

\* reads issued on top of those still outstanding
awaits_overlapping(at, reads) ==
  /\ pc' = at
  /\ inflight' = inflight \cup {reads[i] : i \in 1..Len(reads)}
  /\ issued' = issued \o reads
  /\ UNCHANGED <<uiVars, result>>

\* issue reads and suspend at `at`
awaits(at, reads) ==
  /\ pc' = at
  /\ inflight' = {reads[i] : i \in 1..Len(reads)}
  /\ issued' = issued \o reads
  /\ UNCHANGED <<uiVars, result>>

\* the head of the loop of lines 647-725 from entry `from` on: the next
\* counterpart's profile is read, or, past the last entry, the root's history
loops(relations, from) ==
  LET n == nextEntry(relations, from, address)
  IN  /\ idx' = n
      /\ IF n <= Len(relations)
         THEN awaits("connAvatar",
                     << Read("getAvatarInfo", otherAddress(relations[n], address)) >>)
         ELSE awaits("userHistory", << Read("getTransactionHistory", address) >>)

-----------------------------------------------------------------------------
(* Actions                                                                 *)

\* crc-notifier.tsx:563-591, the effect that builds the read-only client
initializeSDK ==
  /\ pc = "idle" /\ ~isInitialized /\ hookError = ""
  /\ \/ /\ isInitialized' = TRUE
        /\ UNCHANGED <<hookError, error>>
     \/ /\ hookError' = "Failed to initialize Circles SDK"
        /\ error' = "Failed to initialize Circles SDK"
        /\ UNCHANGED isInitialized
  /\ UNCHANGED <<isLoading, circlesData, hookIsLoading, fetchVars, readVars, calcVars, unitVars, reminded>>

\* an early return that raised the loading flag before reporting
surfaces_afterLoading(message) ==
  /\ error' = message
  /\ isLoading' = TRUE
  /\ UNCHANGED <<circlesData, isInitialized, hookIsLoading,
                 hookError, fetchVars, readVars>>

\* crc-notifier.tsx:69-77, setError(...) followed by return: the message is
\* shown and nothing else of the component or the hook is touched
surfaces(message) ==
  /\ error' = message
  /\ UNCHANGED <<isLoading, circlesData, isInitialized, hookIsLoading,
                 hookError, fetchVars, readVars>>

\* crc-notifier.tsx:65-82 with fetchUserData up to its first await (595-604)
handleAddressSubmit ==
  /\ pc = "idle"
  /\ \E circlesAddress \in Inputs :
       LET validation == validateAndNormalizeInput(circlesAddress)
       IN  IF ~validation.isValid
           THEN surfaces(validation.error)
           ELSE IF ~isInitialized
           THEN surfaces("Circles SDK not initialized")
           ELSE /\ isLoading' = TRUE
                /\ error' = ""
                /\ hookIsLoading' = TRUE
                /\ hookError' = ""
                /\ address' = validation.normalizedInput
                /\ pc' = "avatar"
                /\ inflight' = {Read("getAvatarInfo", validation.normalizedInput)}
                /\ issued' = issued \o << Read("getAvatarInfo", validation.normalizedInput) >>
                /\ UNCHANGED <<circlesData, isInitialized, totalBalance, trustRelations,
                               idx, connectionAvatarInfo, connectionBalance,
                               trustedConnections, userLastClaimTime, result,
                               settled, failures, rootOutcome, failedAddrs>>
  /\ UNCHANGED <<calcVars, unitVars, reminded>>

\* lines 604-607: the root's profile read settles
fetchUserData_avatar ==
  /\ pc = "avatar"
  /\ \E o \in Outcomes :
       LET avatarInfo == LedgerAvatar(address)
       IN  /\ settled' = {Settled("getAvatarInfo", address, o)}
           /\ failures' = failures + Count({o})
           /\ rootOutcome' = [rootOutcome EXCEPT !.avatar =
                                IF Failed(o) THEN o
                                ELSE IF avatarInfo.found THEN "ok" ELSE "absent"]
           /\ IF Failed(o) THEN rejects(ThrownBy(o))
              ELSE IF NotSignedUp(avatarInfo)
              THEN rejects("Address is not signed up to Circles")
              ELSE awaits("balance", << Read("getTotalBalance", address),
                                        Read("getTotalBalanceV2", address) >>)
  /\ UNCHANGED <<address, totalBalance, trustRelations, idx, connectionAvatarInfo,
                 connectionBalance, trustedConnections, userLastClaimTime,
                 failedAddrs, calcVars, unitVars, reminded>>

\* lines 610-641: both balance reads settle (Promise.allSettled never
\* rejects), then the trust relations are asked for
fetchUserData_balance ==
  /\ pc = "balance"
  /\ \E o1 \in Outcomes, o2 \in Outcomes :
       LET n == (IF Failed(o1) THEN 1 ELSE 0) + (IF Failed(o2) THEN 1 ELSE 0)
       IN  /\ failures + n <= MaxFail
           /\ settled' = {Settled("getTotalBalance", address, o1),
                          Settled("getTotalBalanceV2", address, o2)}
           /\ failures' = failures + n
           /\ rootOutcome' = [rootOutcome EXCEPT !.balanceV1 = o1, !.balanceV2 = o2]
           /\ totalBalance' = settledValue(o1, LedgerBalanceV1(address))
                              + settledValue(o2, LedgerBalanceV2(address))
  /\ awaits("trust", << Read("getTrustRelations", address) >>)
  /\ UNCHANGED <<address, trustRelations, idx, connectionAvatarInfo,
                 connectionBalance, trustedConnections, userLastClaimTime,
                 failedAddrs, calcVars, unitVars, reminded>>

\* lines 641-655: the page of trust relations settles and the loop begins
fetchUserData_trust ==
  /\ pc = "trust"
  /\ \E o \in Outcomes :
       /\ settled' = {Settled("getTrustRelations", address, o)}
       /\ failures' = failures + Count({o})
       /\ rootOutcome' = [rootOutcome EXCEPT !.trust = o]
       /\ IF Failed(o)
          THEN rejects(ThrownBy(o)) /\ UNCHANGED <<trustRelations, idx>>
          ELSE \E relations \in RelationLists(address) :
                 /\ trustRelations' = relations
                 /\ loops(relations, 1)
  /\ UNCHANGED <<address, totalBalance, connectionAvatarInfo, connectionBalance,
                 trustedConnections, userLastClaimTime, failedAddrs, calcVars, unitVars, reminded>>

\* lines 664-683: a counterpart's profile read settles, its balances are asked
fetchUserData_connAvatar ==
  /\ pc = "connAvatar"
  /\ \E o \in Outcomes :
       LET other == otherAddress(trustRelations[idx], address)
           got == connectionAvatar(o, other)
       IN  /\ settled' = {Settled("getAvatarInfo", other, o)}
           /\ failures' = failures + Count({o})
           /\ failedAddrs' = IF Failed(o) THEN failedAddrs \cup {other} ELSE failedAddrs
           /\ IF got.thrown
              THEN /\ rejects(ThrownBy(o))
                   /\ UNCHANGED connectionAvatarInfo
              ELSE /\ connectionAvatarInfo' = got.info
                   /\ awaits("connBalance", << Read("getTotalBalance", other),
                                               Read("getTotalBalanceV2", other) >>)
  /\ UNCHANGED <<address, totalBalance, trustRelations, idx, connectionBalance,
                 trustedConnections, userLastClaimTime, rootOutcome, calcVars, unitVars, reminded>>

\* lines 677-701: a counterpart's balance reads settle, its history is asked
fetchUserData_connBalance ==
  /\ pc = "connBalance"
  /\ \E o1 \in Outcomes, o2 \in Outcomes :
       LET other == otherAddress(trustRelations[idx], address)
           n == (IF Failed(o1) THEN 1 ELSE 0) + (IF Failed(o2) THEN 1 ELSE 0)
       IN  /\ failures + n <= MaxFail
           /\ settled' = {Settled("getTotalBalance", other, o1),
                          Settled("getTotalBalanceV2", other, o2)}
           /\ failures' = failures + n
           /\ failedAddrs' = IF n > 0 THEN failedAddrs \cup {other} ELSE failedAddrs
           /\ connectionBalance' = settledValue(o1, LedgerBalanceV1(other))
                                   + settledValue(o2, LedgerBalanceV2(other))
           /\ awaits("connHistory", << Read("getTransactionHistory", other) >>)
  /\ UNCHANGED <<address, totalBalance, trustRelations, idx, connectionAvatarInfo,
                 trustedConnections, userLastClaimTime, rootOutcome, calcVars, unitVars, reminded>>

\* lines 701-725: a counterpart's history settles; its accrual is computed,
\* the connection is pushed or skipped, and the loop goes on
fetchUserData_connHistory ==
  /\ pc = "connHistory"
  /\ \E o \in Outcomes :
       LET other == otherAddress(trustRelations[idx], address)
           lastClaimTime == getLastPersonalMintTime(o, LedgerHistory(other))
           unclaimedAmount == useCircles_calculateUnclaimedCRC(lastClaimTime)
       IN  /\ settled' = {Settled("getTransactionHistory", other, o)}
           /\ failures' = failures + Count({o})
           /\ failedAddrs' = IF Failed(o) THEN failedAddrs \cup {other} ELSE failedAddrs
           /\ trustedConnections' =
                IF unclaimedAmount.ok
                THEN Append(trustedConnections,
                            Connection(other, connectionAvatarInfo, connectionBalance,
                                       unclaimedAmount.amount, lastClaimTime,
                                       isMutualTrust(trustRelations, other, address)))
                ELSE trustedConnections
  /\ connectionAvatarInfo' = NoAvatar
  /\ connectionBalance' = 0
  /\ loops(trustRelations, idx + 1)
  /\ UNCHANGED <<address, totalBalance, trustRelations, userLastClaimTime,
                 rootOutcome, calcVars, unitVars, reminded>>

\* lines 728-755 and 778-780: the root's own history settles, the snapshot is
\* returned and handleAddressSubmit shows it (lines 83-84, 92)
fetchUserData_userHistory ==
  /\ pc = "userHistory"
  /\ \E o \in Outcomes :
       LET last == getLastPersonalMintTime(o, LedgerHistory(address))
           computed == useCircles_calculateUnclaimedCRC(last)
           userUnclaimed == IF computed.ok THEN computed.amount ELSE 0
       IN  /\ settled' = {Settled("getTransactionHistory", address, o)}
           /\ failures' = failures + Count({o})
           /\ rootOutcome' = [rootOutcome EXCEPT !.history = o]
           /\ userLastClaimTime' = last
           /\ resolves([address |-> address,
                        totalBalance |-> totalBalance,
                        unclaimed |-> Max(0, userUnclaimed),
                        trustedConnections |-> uniqueConnections(trustedConnections),
                        isSignedUp |-> TRUE])
  /\ UNCHANGED <<address, totalBalance, trustRelations, idx, connectionAvatarInfo,
                 connectionBalance, trustedConnections, failedAddrs, calcVars, unitVars, reminded>>

\* crc-notifier.tsx:136-139
connectionsNeedingReminder ==
  IF circlesData = <<>> THEN <<>>
  ELSE SelectSeq(circlesData[1].trustedConnections,
                 LAMBDA conn : needsReminder(Thousandths(conn.unclaimed)))

\* crc-notifier.tsx:413-418 with sendReminder, lines 96-119: the button is
\* shown for a non-empty list (line 398); forEach calls sendReminder for
\* each entry in turn, and each call returns at once when no user is
\* authenticated
sendAllReminders ==
  /\ pc = "resolved" /\ reminded = <<>>
  /\ Len(connectionsNeedingReminder) > 0
  /\ \E authenticated \in BOOLEAN :
       reminded' = IF authenticated
                   THEN [i \in 1..Len(connectionsNeedingReminder) |->
                           connectionsNeedingReminder[i].address]
                   ELSE <<>>
  /\ UNCHANGED <<uiVars, fetchVars, readVars, calcVars, unitVars>>

Next ==
  \/ initializeSDK
  \/ handleAddressSubmit
  \/ fetchUserData_avatar
  \/ fetchUserData_balance
  \/ fetchUserData_trust
  \/ fetchUserData_connAvatar
  \/ fetchUserData_connBalance
  \/ fetchUserData_connHistory
  \/ fetchUserData_userHistory
  \/ sendAllReminders

Spec == Init /\ [][Next]_vars

-----------------------------------------------------------------------------
(* The two accrual calculators on one last-claim time                       *)

ClaimTimes == {NoTime} \cup 0..(Now + MaxAhead)

InitCalc ==
  /\ InitIdle
  /\ calcPc = "input" /\ calcInput \in ClaimTimes
  /\ hookResult = NoAccrual /\ utilResult = NoAccrual
  /\ retry = NoRetry /\ remind = NoRemind /\ norm = NoNorm
  /\ mint = NoMint /\ calls = <<>>

\* crc-notifier.tsx:540-560 applied to calcInput
apply_useCircles_calculateUnclaimedCRC ==
  /\ calcPc \in {"input", "utility"}
  /\ hookResult' = useCircles_calculateUnclaimedCRC(calcInput)
  /\ calcPc' = IF calcPc = "input" THEN "hook" ELSE "done"
  /\ UNCHANGED <<calcInput, utilResult, uiVars, fetchVars, readVars, unitVars, reminded>>

\* part_000:110-135 applied to calcInput
apply_calculateUnclaimedCRC ==
  /\ calcPc \in {"input", "hook"}
  /\ utilResult' = calculateUnclaimedCRC(calcInput)
  /\ calcPc' = IF calcPc = "input" THEN "utility" ELSE "done"
  /\ UNCHANGED <<calcInput, hookResult, uiVars, fetchVars, readVars, unitVars, reminded>>

NextCalc ==
  \/ apply_useCircles_calculateUnclaimedCRC
  \/ apply_calculateUnclaimedCRC

SpecCalc == InitCalc /\ [][NextCalc]_vars

-----------------------------------------------------------------------------
(* retryContractCall, part_000:401-425: one call, one step per await.  fn   *)
(* is a remote call that returns a value or throws one of Errors.           *)

\* what fn may throw: three shapes of a rate-limit signal, a revert, a
\* transport failure
Errors ==
  { [code |-> -32016, message |-> "", status |-> 0],
    [code |-> 0, message |-> "rate limit exceeded", status |-> 0],
    [code |-> 0, message |-> "", status |-> 429],
    [code |-> 0, message |-> "execution reverted", status |-> 0],
    [code |-> 0, message |-> "Failed to fetch", status |-> 0] }

MaxRetriesExceeded == [code |-> 0, message |-> "Max retries exceeded", status |-> 0]

\* message.includes("rate limit") on the messages of Errors
includesRateLimit(message) == message = "rate limit exceeded"

\* lines 411-413
isRateLimit(err) ==
  \/ err.code = -32016
  \/ includesRateLimit(err.message)
  \/ err.status = 429

\* a catch block that backs off after any failure
retries_anyFailure(err, i, n) == i < n - 1

\* line 415: the failure is followed by a delay and another iteration
retries(err, i, n) == isRateLimit(err) /\ i < n - 1

RECURSIVE pow(_, _)
pow(b, e) == IF e = 0 THEN 1 ELSE b * pow(b, e - 1)

\* a backoff that does not grow
delay_constant(base, i) == base

\* line 416: baseDelay * Math.pow(2, i)
delay(base, i) == base * pow(2, i)

\* the arguments the callers pass: the defaults (lines 403-404) and others
RetryArgs == (0..MaxAttempts) \X {baseDelay, baseDelay \div 4}

InitRetry ==
  /\ InitIdle
  /\ CalcOff
  /\ retry = [NoRetry EXCEPT !.pc = "idle"]
  /\ remind = NoRemind /\ norm = NoNorm
  /\ mint = NoMint /\ calls = <<>>

\* lines 401-408: the call is made; the loop is entered and fn is invoked,
\* or with no iteration to run line 424 throws
retry_call ==
  /\ retry.pc = "idle"
  /\ \E args \in RetryArgs :
       retry' = IF 0 < args[1]
                THEN [retry EXCEPT !.pc = "attempt", !.maxRetries = args[1],
                                   !.baseDelay = args[2], !.i = 0, !.calls = 1]
                ELSE [retry EXCEPT !.pc = "thrown", !.maxRetries = args[1],
                                   !.baseDelay = args[2],
                                   !.thrown = MaxRetriesExceeded]
  /\ UNCHANGED <<uiVars, reminded, fetchVars, readVars, calcVars, remind, norm, mint, calls>>

\* line 408: fn returns
retry_returns ==
  /\ retry.pc = "attempt"
  /\ retry' = [retry EXCEPT !.pc = "returned"]
  /\ UNCHANGED <<uiVars, reminded, fetchVars, readVars, calcVars, remind, norm, mint, calls>>

\* lines 409-421: fn throws; a rate-limit signal before the last iteration
\* starts the timer, anything else is rethrown
retry_catches ==
  /\ retry.pc = "attempt"
  /\ \E err \in Errors :
       IF retries(err, retry.i, retry.maxRetries)
       THEN retry' = [retry EXCEPT !.pc = "backoff",
                                   !.errors = Append(@, err),
                                   !.waits = Append(@, delay(retry.baseDelay, retry.i))]
       ELSE retry' = [retry EXCEPT !.pc = "thrown",
                                   !.errors = Append(@, err),
                                   !.thrown = err]
  /\ UNCHANGED <<uiVars, reminded, fetchVars, readVars, calcVars, remind, norm, mint, calls>>

\* lines 418-419 and 406-408: the timer fires, the loop goes on and fn is
\* invoked again
retry_continue ==
  /\ retry.pc = "backoff"
  /\ retry' = [retry EXCEPT !.pc = "attempt", !.i = @ + 1, !.calls = @ + 1]
  /\ UNCHANGED <<uiVars, reminded, fetchVars, readVars, calcVars, remind, norm, mint, calls>>

NextRetry ==
  \/ retry_call
  \/ retry_returns
  \/ retry_catches
  \/ retry_continue

SpecRetry == InitRetry /\ [][NextRetry]_vars

-----------------------------------------------------------------------------
(* The reminder classifiers applied to one amount                          *)

\* the amounts classified: around every whole number of CRC an accrual can
\* reach, the number itself, a thousandth more and a thousandth less than
\* the next
UnclaimedAmounts ==
  { Thousandths(whole) + part :
      whole \in 0..(MAX_UNCLAIMED_DAYS * 24 + MaxAhead), part \in {0, 1, 999} }

InitRemind ==
  /\ InitIdle
  /\ CalcOff
  /\ \E unclaimed \in UnclaimedAmounts :
       remind = [NoRemind EXCEPT !.pc = "input", !.unclaimed = unclaimed]
  /\ retry = NoRetry /\ norm = NoNorm
  /\ mint = NoMint /\ calls = <<>>

\* part_000:63-65 applied to remind.unclaimed
apply_needsReminder ==
  /\ remind.pc \in {"input", "priority"}
  /\ remind' = [remind EXCEPT !.needs = needsReminder(remind.unclaimed),
                              !.pc = IF @ = "input" THEN "needs" ELSE "done"]
  /\ UNCHANGED <<uiVars, reminded, fetchVars, readVars, calcVars, retry, norm, mint, calls>>

\* part_000:70-78 applied to remind.unclaimed
apply_getReminderPriority ==
  /\ remind.pc \in {"input", "needs"}
  /\ remind' = [remind EXCEPT !.priority = getReminderPriority(remind.unclaimed),
                              !.pc = IF @ = "input" THEN "priority" ELSE "done"]
  /\ UNCHANGED <<uiVars, reminded, fetchVars, readVars, calcVars, retry, norm, mint, calls>>

NextRemind ==
  \/ apply_needsReminder
  \/ apply_getReminderPriority

SpecRemind == InitRemind /\ [][NextRemind]_vars

-----------------------------------------------------------------------------
(* validateAndNormalizeInput on every string: a string is the sequence of   *)
(* its characters.  The tables of the section above are these functions on  *)
(* the strings named there.                                                 *)

\* the characters inputs are made of
Alphabet == {" ", "0", "x", "a", "A", "e", ".", "t", "h"}

HexLower == {"a", "b", "c", "d", "e", "f"}
HexUpper == {"A", "B", "C", "D", "E", "F"}
HexDigits == {"0", "1", "2", "3", "4", "5", "6", "7", "8", "9"} \cup HexLower \cup HexUpper

lowerChar(c) ==
  CASE c = "A" -> "a" [] c = "B" -> "b" [] c = "C" -> "c" [] c = "D" -> "d"
    [] c = "E" -> "e" [] c = "F" -> "f" [] c = "X" -> "x" [] c = "T" -> "t"
    [] c = "H" -> "h" [] OTHER -> c

upperChar(c) ==
  CASE c = "a" -> "A" [] c = "b" -> "B" [] c = "c" -> "C" [] c = "d" -> "D"
    [] c = "e" -> "E" [] c = "f" -> "F" [] OTHER -> c

\* a lower-casing that leaves the string as typed
toLowerCaseChars_asTyped(str) == str

\* String.prototype.toLowerCase, part_000:342
toLowerCaseChars(str) == [i \in 1..Len(str) |-> lowerChar(str[i])]

RECURSIVE trimStart(_)
trimStart(str) ==
  IF str # <<>> /\ Head(str) = " " THEN trimStart(Tail(str)) ELSE str

RECURSIVE trimEnd(_)
trimEnd(str) ==
  IF str # <<>> /\ str[Len(str)] = " "
  THEN trimEnd(SubSeq(str, 1, Len(str) - 1)) ELSE str

\* String.prototype.trim, part_000:321
trimChars(str) == trimEnd(trimStart(str))

\* String.prototype.endsWith and String.prototype.includes, part_000:18
endsWith(str, suffix) ==
  /\ Len(suffix) <= Len(str)
  /\ SubSeq(str, Len(str) - Len(suffix) + 1, Len(str)) = suffix

includes(str, part) ==
  \E i \in 1..(Len(str) - Len(part) + 1) : SubSeq(str, i, i + Len(part) - 1) = part

\* part_000:17-19
isValidENSChars(name) ==
  endsWith(name, <<".", "e", "t", "h">>) \/ includes(name, <<".">>)

\* ethers.getAddress, called at part_000:8 and 26.  It takes AddrDigits
\* hexadecimal digits with or without the prefix 0x, throws on anything
\* else and on a mixed-case address that is not its own checksum form, and
\* returns the checksum form.  The checksum casing (by the Keccak hash in
\* ethers) is here: the first letter among the digits in upper case, the
\* others in lower case.
hexPart(str) ==
  IF Len(str) = AddrDigits + 2 /\ str[1] = "0" /\ str[2] = "x"
  THEN SubSeq(str, 3, Len(str)) ELSE str

matchesAddress(str) ==
  /\ Len(hexPart(str)) = AddrDigits
  /\ \A i \in 1..AddrDigits : hexPart(str)[i] \in HexDigits

getChecksumAddress(digits) ==
  LET letters == {i \in 1..Len(digits) : lowerChar(digits[i]) \in HexLower}
  IN  <<"0", "x">> \o
      [i \in 1..Len(digits) |->
         IF i \in letters /\ \A j \in letters : i <= j
         THEN upperChar(lowerChar(digits[i]))
         ELSE lowerChar(digits[i])]

isMixedCase(str) ==
  /\ \E i \in 1..Len(str) : str[i] \in HexUpper
  /\ \E i \in 1..Len(str) : str[i] \in HexLower

getAddress(str) ==
  IF ~matchesAddress(str) THEN [thrown |-> TRUE, value |-> <<>>]
  ELSE LET checksummed == getChecksumAddress(hexPart(str))
       IN  IF isMixedCase(str) /\ checksummed # <<"0", "x">> \o hexPart(str)
           THEN [thrown |-> TRUE, value |-> <<>>]
           ELSE [thrown |-> FALSE, value |-> checksummed]

\* part_000:6-12: ethers.isAddress is "getAddress does not throw"
isValidAddressChars(addr) == ~getAddress(addr).thrown

\* part_000:24-30
normalizeAddressChars(addr) ==
  IF getAddress(addr).thrown THEN addr ELSE getAddress(addr).value

\* part_000:316-352
validateAndNormalizeChars(input) ==
  LET trimmed == trimChars(input)
  IN  IF trimmed = <<>>
      THEN [isValid |-> FALSE, normalizedInput |-> <<>>,
            error |-> "Please enter an address or ENS name"]
      ELSE IF isValidAddressChars(trimmed)
      THEN [isValid |-> TRUE, normalizedInput |-> normalizeAddressChars(trimmed),
            error |-> ""]
      ELSE IF isValidENSChars(trimmed)
      THEN [isValid |-> TRUE, normalizedInput |-> toLowerCaseChars(trimmed),
            error |-> ""]
      ELSE [isValid |-> FALSE, normalizedInput |-> trimmed,
            error |-> "Please enter a valid Ethereum address or ENS name"]

Blanks == {<<>>, <<" ">>}

\* the inputs: every string of at most MaxInputLen characters, typed with
\* or without a blank before it and after it
InitNorm ==
  /\ InitIdle
  /\ CalcOff
  /\ \E before \in Blanks, after \in Blanks, n \in 0..MaxInputLen :
       \E typed \in [1..n -> Alphabet] :
          norm = [NoNorm EXCEPT !.pc = "input", !.input = before \o typed \o after]
  /\ retry = NoRetry /\ remind = NoRemind
  /\ mint = NoMint /\ calls = <<>>

\* part_000:316-352 applied to norm.input
apply_validateAndNormalizeInput ==
  /\ norm.pc = "input"
  /\ norm' = [norm EXCEPT !.pc = "done",
                          !.result = validateAndNormalizeChars(norm.input)]
  /\ UNCHANGED <<uiVars, reminded, fetchVars, readVars, calcVars, retry, remind, mint, calls>>

NextNorm == apply_validateAndNormalizeInput

SpecNorm == InitNorm /\ [][NextNorm]_vars

-----------------------------------------------------------------------------
(* getLastPersonalMintTime, crc-notifier.tsx:485-537, on every page         *)

\* the transactions a page is made of; timestamp 0 is a missing timestamp
Transactions ==
  { Tx(m, i, e, t) : m \in {"personalMint", "transfer"},
                     i \in {"0x2c6ba5ca00", "0xa9059cbb"},
                     e \in {"PersonalMint", "Transfer"},
                     t \in {0, Now - 3, Now - 50} }

InitMint ==
  /\ InitIdle
  /\ CalcOff
  /\ \E o \in {"ok", "rateLimit", "networkError"}, n \in 0..MaxHistory :
       \E page \in [1..n -> Transactions] :
          mint = [NoMint EXCEPT !.pc = "called", !.outcome = o, !.transactions = page]
  /\ retry = NoRetry /\ remind = NoRemind /\ norm = NoNorm /\ calls = <<>>

\* lines 487-536: without a client (line 487) null is returned and nothing is
\* read; else the page is read and searched
getLastPersonalMintTime_returns ==
  /\ mint.pc = "called"
  /\ \E hasData \in BOOLEAN :
       mint' = IF hasData
               THEN [mint EXCEPT !.pc = "read",
                       !.time = getLastPersonalMintTime(mint.outcome, mint.transactions)]
               ELSE [mint EXCEPT !.pc = "noClient", !.time = NoTime]
  /\ UNCHANGED <<uiVars, reminded, fetchVars, readVars, calcVars, retry, remind,
                 norm, calls>>

NextMint == getLastPersonalMintTime_returns

SpecMint == InitMint /\ [][NextMint]_vars

-----------------------------------------------------------------------------
(* Lookups that overlap: handleAddressSubmit and refreshData around          *)
(* fetchUserData calls that settle in any order                              *)

\* the number of fetchUserData calls started in one behaviour
MaxCalls == 3

\* what is typed into the field before Enter: blank, two registered
\* accounts, an unregistered one
Submitted == {"", "0xAa", "0x3C", "0xEe"}

\* the calls that have not settled
InFlight == {i \in 1..Len(calls) : calls[i].state = "inflight"}

\* a fetchUserData call that was started, the handler awaiting it, and
\* whether an earlier call was still in flight when it started
Call(handler, addr) ==
  [handler |-> handler, address |-> addr, state |-> "inflight", data |-> <<>>,
   overlaps |-> InFlight # {}]

\* crc-notifier.tsx:728-755, the snapshot returned for a root without trust
\* relations when every read after the profile check succeeds
CirclesUserData(addr) ==
  LET last == getLastPersonalMintTime("ok", LedgerHistory(addr))
      computed == useCircles_calculateUnclaimedCRC(last)
      userUnclaimed == IF computed.ok THEN computed.amount ELSE 0
  IN  [address |-> addr,
       totalBalance |-> LedgerBalanceV1(addr) + LedgerBalanceV2(addr),
       unclaimed |-> Max(0, userUnclaimed),
       trustedConnections |-> <<>>,
       isSignedUp |-> TRUE]

\* crc-notifier.tsx:78-82 and 599-600 (handleAddressSubmit), 123-125 and
\* 599-600 (refreshData): the loading flags go up, the hook's error is
\* cleared and the call is in flight
starts(handler, addr) ==
  /\ Len(calls) < MaxCalls
  /\ isLoading' = TRUE
  /\ hookIsLoading' = TRUE
  /\ hookError' = ""
  /\ calls' = Append(calls, Call(handler, addr))
  /\ UNCHANGED <<circlesData, isInitialized>>

\* crc-notifier.tsx:65-82; the Enter key of line 178 calls the handler
\* whatever the loading flags say
handleAddressSubmit_overlapping ==
  /\ \E circlesAddress \in Submitted :
       LET validation == validateAndNormalizeInput(circlesAddress)
       IN  IF ~validation.isValid
           THEN surfaces(validation.error) /\ UNCHANGED calls
           ELSE IF ~isInitialized
           THEN surfaces("Circles SDK not initialized") /\ UNCHANGED calls
           ELSE /\ starts("submit", validation.normalizedInput)
                /\ error' = ""
                /\ UNCHANGED <<fetchVars, readVars>>
  /\ UNCHANGED <<reminded, calcVars, retry, remind, norm, mint>>

\* crc-notifier.tsx:121-125; the button of lines 245-248 is disabled while
\* actualLoading (line 154)
refreshData ==
  /\ ~(isLoading \/ hookIsLoading)
  /\ circlesData # <<>> /\ circlesData[1].address # "" /\ isInitialized
  /\ starts("refresh", circlesData[1].address)
  /\ UNCHANGED <<error, reminded, fetchVars, readVars, calcVars, retry, remind,
                 norm, mint>>

\* a catch block that also drops the snapshot on display
catches_droppingData(i, message) ==
  /\ hookError' = errorMessageOf(message)
  /\ hookIsLoading' = FALSE
  /\ calls' = [calls EXCEPT ![i].state = "rejected"]
  /\ error' = getErrorMessage(errorMessageOf(message))
  /\ circlesData' = <<>>
  /\ isLoading' = FALSE
  /\ UNCHANGED isInitialized

\* call i rejects: crc-notifier.tsx:756-780, then the catch and finally of
\* its handler: lines 85-93 (handleAddressSubmit), or lines 128-132
\* (refreshData) with the effect of lines 59-63 copying a changed hook error
catches(i, message) ==
  LET errorMessage == errorMessageOf(message)
  IN  /\ hookError' = errorMessage
      /\ hookIsLoading' = FALSE
      /\ calls' = [calls EXCEPT ![i].state = "rejected"]
      /\ error' = IF calls[i].handler = "submit" THEN getErrorMessage(errorMessage)
                  ELSE IF errorMessage # hookError THEN errorMessage
                  ELSE error
      /\ isLoading' = FALSE
      /\ UNCHANGED <<circlesData, isInitialized>>

\* call i resolves: crc-notifier.tsx:748-755 and 778-780, then lines 83-84
\* and 92 (handleAddressSubmit) or 126-127 and 132 (refreshData)
shows(i, data) ==
  /\ hookIsLoading' = FALSE
  /\ calls' = [calls EXCEPT ![i].state = "resolved", ![i].data = <<data>>]
  /\ circlesData' = <<data>>
  /\ isLoading' = FALSE
  /\ UNCHANGED <<hookError, error, isInitialized>>

\* crc-notifier.tsx:604-607 and 748-780: one of the calls in flight settles;
\* it rejects on a failed read or an unregistered root
fetchUserData_settles ==
  /\ \E i \in InFlight, o \in {"ok", "rateLimit", "networkError"} :
       IF Failed(o) THEN catches(i, ThrownBy(o))
       ELSE IF NotSignedUp(LedgerAvatar(calls[i].address))
       THEN catches(i, "Address is not signed up to Circles")
       ELSE shows(i, CirclesUserData(calls[i].address))
  /\ UNCHANGED <<reminded, fetchVars, readVars, calcVars, retry, remind, norm,
                 mint>>

NextUI ==
  \/ initializeSDK
  \/ handleAddressSubmit_overlapping
  \/ refreshData
  \/ fetchUserData_settles

SpecUI == Init /\ [][NextUI]_vars

-----------------------------------------------------------------------------
(* Properties                                                              *)

\* the connections of the snapshot fetchUserData returned
Connections == result.data[1].trustedConnections
Returned == pc = "resolved" /\ result.kind = "snapshot"
FailedRead(o) == o \in {"rateLimit", "networkError"}

\* the relation list holds an entry (a -> b)
HasEntry(relations, a, b) ==
  \E i \in 1..Len(relations) : relations[i] = Rel(a, b)

\* C1: a counterpart of the snapshot is marked isMutualTrust exactly when the
\* relation list holds both (root -> counterpart) and (counterpart -> root).
C1_MutualIffBothDirections ==
  Returned =>
    \A i \in 1..Len(Connections) :
       Connections[i].isMutualTrust
         <=> /\ HasEntry(trustRelations, address, Connections[i].address)
             /\ HasEntry(trustRelations, Connections[i].address, address)

\* C2: for a last-claim time later than now both calculators fail with
\* FutureTimestamp and return no amount.
C2_FutureTimestampRejected ==
  calcInput # NoTime /\ calcInput > Now =>
    /\ calcPc \in {"hook", "done"} => hookResult = Thrown("FutureTimestamp")
    /\ calcPc \in {"utility", "done"} => utilResult = Thrown("FutureTimestamp")

\* C3: every connection of the snapshot has an observed last-claim time that
\* is not later than now: a counterpart whose accrual fails is absent.
C3_FailedAccrualExcluded ==
  Returned =>
    \A i \in 1..Len(Connections) :
       /\ Connections[i].lastClaim # NoTime
       /\ Connections[i].lastClaim <= Now

\* C4: the snapshot holds at most one connection per counterpart address and
\* none for the root, addresses being equal when their bytes are.
C4_DedupCaseInsensitive ==
  Returned =>
    /\ \A i, j \in 1..Len(Connections) :
          i # j => ~SameBytes(Connections[i].address, Connections[j].address)
    /\ \A i \in 1..Len(Connections) : ~SameBytes(Connections[i].address, address)

\* C5: a read that signals a rate limit on an attempt before the bound is
\* issued again: its next attempt is outstanding.
C5_RateLimitedReadRetried ==
  \A r \in settled :
     r.outcome = "rateLimit" /\ r.attempt < maxRetries =>
       [op |-> r.op, addr |-> r.addr, attempt |-> r.attempt + 1] \in inflight

\* C6 as stated: once the root's profile read or one of its balance reads has
\* failed, fetchUserData returns no snapshot.
C6_RootLookupFailureAborts ==
  \/ FailedRead(rootOutcome.avatar)
  \/ FailedRead(rootOutcome.balanceV1)
  \/ FailedRead(rootOutcome.balanceV2)
  => ~Returned

\* C6 amended: a failed root profile read ends the call with an error and no
\* snapshot; a failed root balance read does not, it counts as 0 in the
\* total balance of the snapshot.
C6_RootProfileFailureAborts ==
  /\ FailedRead(rootOutcome.avatar) =>
       /\ pc = "rejected" /\ result.kind = "error" /\ result.data = <<>>
       /\ circlesData = <<>>
  /\ Returned =>
       result.data[1].totalBalance
         = (IF rootOutcome.balanceV1 = "ok" THEN LedgerBalanceV1(address) ELSE 0)
           + (IF rootOutcome.balanceV2 = "ok" THEN LedgerBalanceV2(address) ELSE 0)

C6_Witness ==
  /\ rootOutcome.avatar = "rateLimit"
  /\ pc = "rejected" /\ result.kind = "error"

\* the connection the ledger's data gives for counterpart a of the call
LedgerConnection(a) ==
  LET last == lastMintOf(LedgerHistory(a))
  IN  Connection(a, LedgerAvatar(a), LedgerBalanceV1(a) + LedgerBalanceV2(a),
                 useCircles_calculateUnclaimedCRC(last).amount, last,
                 isMutualTrust(trustRelations, a, address))

\* C7: with the root registered and the relations read, no failure of a
\* counterpart's reads makes the call reject, and the counterparts none of
\* whose reads failed have the connection the ledger's data gives, while
\* the loop runs and in the snapshot.
C7_CounterpartFailuresNeverAbort ==
  /\ pc = "rejected" => rootOutcome.avatar # "ok" \/ FailedRead(rootOutcome.trust)
  /\ pc \in {"connAvatar", "connBalance", "connHistory", "userHistory"} =>
       \A i \in 1..Len(trustedConnections) :
          trustedConnections[i].address \notin failedAddrs =>
            trustedConnections[i] = LedgerConnection(trustedConnections[i].address)
  /\ Returned =>
       /\ \A i \in 1..Len(Connections) :
             Connections[i].address \notin failedAddrs =>
               Connections[i] = LedgerConnection(Connections[i].address)
       /\ \A k \in 1..Len(trustRelations) :
             LET other == otherAddress(trustRelations[k], address)
             IN  /\ other # address
                 /\ other \notin failedAddrs
                 /\ lastMintOf(LedgerHistory(other)) # NoTime
                 => \E i \in 1..Len(Connections) : Connections[i].address = other

C7_Witness ==
  /\ Returned
  /\ failures = MaxFail
  /\ "0xCc" \in failedAddrs /\ "0xBb" \notin failedAddrs
  /\ \E i \in 1..Len(Connections) : Connections[i].address = "0xBb"

\* C8: when the root has no profile the call ends with the NotRegistered
\* error, no snapshot, and the profile read is the only read ever issued.
C8_NotRegisteredIsTerminal ==
  rootOutcome.avatar = "absent" =>
    /\ pc = "rejected"
    /\ result = [kind |-> "error", data |-> <<>>,
                 error |-> "This address is not registered with Circles"]
    /\ circlesData = <<>>
    /\ issued = << Read("getAvatarInfo", address) >>
    /\ inflight = {}

C8_Witness ==
  /\ rootOutcome.avatar = "absent" /\ pc = "rejected"
  /\ address = "0xEe"

\* crc-notifier.tsx:215-231: the branch that shows "Unknown"
ShowsUnknown == circlesData # <<>> /\ ~(circlesData[1].unclaimed > 0)

\* the accrual of the root's observed last-claim time is an error
RootAccrualFailed == ~calculateUnclaimedCRC(userLastClaimTime).ok

\* C9: when the root's accrual fails the call still resolves, with unclaimed
\* 0, and "Unknown" is shown exactly when the root's accrual failed.
C9_UnknownIffRootAccrualFailed ==
  Returned =>
    /\ RootAccrualFailed => circlesData[1].unclaimed = 0
    /\ ShowsUnknown <=> RootAccrualFailed

\* C10: for a last-claim time not later than now both calculators return
\* min(hours elapsed, MAX_UNCLAIMED_DAYS * 24) * the hourly rate: 168 beyond
\* seven days, 3 for three hours.
C10_Expected(t) ==
  IF Now - t > 7 * 24 THEN 168 ELSE IF Now - t = 3 THEN 3 ELSE (Now - t) * 1

C10_CappedAccrual ==
  calcInput # NoTime /\ calcInput <= Now =>
    /\ calcPc \in {"hook", "done"} =>
         /\ hookResult = Amount(Min(Now - calcInput, MAX_UNCLAIMED_DAYS * 24)
                                * HOURLY_CRC_ALLOCATION)
         /\ hookResult.amount = C10_Expected(calcInput)
    /\ calcPc \in {"utility", "done"} =>
         /\ utilResult = Amount(Min(Now - calcInput, MAX_UNCLAIMED_DAYS * 24)
                                * HOURLY_CRC_ALLOCATION)
         /\ utilResult.amount = C10_Expected(calcInput)

C10_Witness ==
  /\ calcPc = "done" /\ Now - calcInput > 7 * 24
  /\ hookResult = Amount(168) /\ utilResult = Amount(168)

\* C11: applied to an absent last-claim time both calculators throw the
\* NoClaimHistory error; neither returns 0 or any other amount.
C11_AbsentClaimTimeThrows ==
  calcInput = NoTime =>
    /\ calcPc \in {"hook", "done"} =>
         /\ ~hookResult.ok
         /\ hookResult = Thrown("NoClaimHistory")
    /\ calcPc \in {"utility", "done"} =>
         /\ ~utilResult.ok
         /\ utilResult = Thrown("NoClaimHistory")

C11_Witness ==
  /\ calcPc = "done" /\ calcInput = NoTime
  /\ hookResult.error = "NoClaimHistory" /\ utilResult.error = "NoClaimHistory"

\* every failure of fn so far was a rate-limit signal
AllRateLimited == \A k \in 1..Len(retry.errors) : isRateLimit(retry.errors[k])

\* C12: when every attempt fails with a rate-limit signal, fn is invoked
\* exactly maxRetries times, the wait after attempt i (counted from 0) is
\* baseDelay * 2^i, there is one wait between two attempts and none after
\* the last, and the error thrown is the rate-limit error of the last
\* attempt; with the defaults: three attempts, waits of 1000 and 2000 ms.
C12_RateLimitExhaustsRetries ==
  retry.pc # "off" /\ retry.maxRetries >= 1 /\ AllRateLimited =>
    /\ retry.calls <= retry.maxRetries
    /\ \A k \in 1..Len(retry.waits) :
          /\ retry.waits[k] = retry.baseDelay * 2^(k - 1)
          /\ k <= retry.maxRetries - 1
    /\ retry.pc = "attempt" => Len(retry.waits) = retry.calls - 1
    /\ retry.pc = "backoff" => Len(retry.waits) = retry.calls
    /\ retry.pc = "thrown" =>
          /\ retry.calls = retry.maxRetries
          /\ Len(retry.errors) = retry.maxRetries
          /\ Len(retry.waits) = retry.maxRetries - 1
          /\ retry.thrown = retry.errors[retry.maxRetries]
          /\ isRateLimit(retry.thrown)
          /\ retry.maxRetries = 3 /\ retry.baseDelay = 1000
               => retry.waits = <<1000, 2000>>

C12_Witness ==
  /\ retry.pc = "thrown" /\ retry.maxRetries = maxRetries
  /\ retry.baseDelay = baseDelay
  /\ retry.calls = 3 /\ AllRateLimited

\* C13: a failure that is no rate-limit signal is rethrown at once: it is
\* the last failure of the call, fn was invoked once per failure and not
\* again, every wait followed an earlier rate-limit signal, and the error
\* thrown is that failure, whatever the number of attempts before it.
C13_OtherFailureRethrownAtOnce ==
  \A k \in 1..Len(retry.errors) :
     ~isRateLimit(retry.errors[k]) =>
       /\ k = Len(retry.errors)
       /\ retry.pc = "thrown"
       /\ retry.thrown = retry.errors[k]
       /\ retry.calls = k
       /\ Len(retry.waits) = k - 1

C13_Witness ==
  /\ retry.pc = "thrown" /\ retry.calls = 2 /\ retry.maxRetries = maxRetries
  /\ retry.thrown.message = "execution reverted"
  /\ Len(retry.waits) = 1

\* C14: the priority of an amount against the daily unit D = 24 is urgent
\* from 5D, high from 3D, medium from 2D, low from D and none under D; 24
\* gives low, 48 medium, 72 high, 120 urgent.
C14_PriorityTiers ==
  remind.pc \in {"priority", "done"} =>
    /\ remind.priority =
          (IF remind.unclaimed >= 5 * 24000 THEN "urgent"
           ELSE IF remind.unclaimed >= 3 * 24000 THEN "high"
           ELSE IF remind.unclaimed >= 2 * 24000 THEN "medium"
           ELSE IF remind.unclaimed >= 24000 THEN "low"
           ELSE "none")
    /\ remind.unclaimed = 24000 => remind.priority = "low"
    /\ remind.unclaimed = 48000 => remind.priority = "medium"
    /\ remind.unclaimed = 72000 => remind.priority = "high"
    /\ remind.unclaimed = 120000 => remind.priority = "urgent"

\* the unclaimed amount the snapshot shown holds for the connection a
UnclaimedOf(a) ==
  LET conns == circlesData[1].trustedConnections
  IN  conns[CHOOSE i \in 1..Len(conns) : conns[i].address = a].unclaimed

\* C15: in connectionsNeedingReminder, and in the order in which Send All
\* Reminders calls sendReminder, no connection precedes one with a strictly
\* larger unclaimed amount.
C15_RemindersByDescendingAmount ==
  /\ \A i, j \in 1..Len(connectionsNeedingReminder) :
        i < j => connectionsNeedingReminder[i].unclaimed
                   >= connectionsNeedingReminder[j].unclaimed
  /\ \A i, j \in 1..Len(reminded) :
        i < j => UnclaimedOf(reminded[i]) >= UnclaimedOf(reminded[j])

\* C16: needsReminder is false for 23.999 and true for 24, and the
\* connections flagged are exactly the connections of the snapshot shown
\* whose unclaimed amount is at least 24, each as often as the snapshot
\* holds it.
C16_FlaggedIffAtLeastDailyUnit ==
  /\ ~needsReminder(23999)
  /\ needsReminder(24000)
  /\ circlesData # <<>> =>
       LET conns == circlesData[1].trustedConnections
       IN  /\ \A i \in 1..Len(conns) :
                (\E k \in 1..Len(connectionsNeedingReminder) :
                    connectionsNeedingReminder[k] = conns[i])
                <=> conns[i].unclaimed >= 24
           /\ \A k \in 1..Len(connectionsNeedingReminder) :
                \E i \in 1..Len(conns) : connectionsNeedingReminder[k] = conns[i]
           /\ Len(connectionsNeedingReminder)
                = Cardinality({i \in 1..Len(conns) : conns[i].unclaimed >= 24})

C16_Witness ==
  /\ Returned
  /\ \E k \in 1..Len(connectionsNeedingReminder) :
        connectionsNeedingReminder[k].unclaimed = 24
  /\ Len(connectionsNeedingReminder) = 2

\* C17: for root 0xAa with the relations A->B, A->C, B->A, where B minted
\* last 50 hours ago and C has no transaction, and no read failing, the
\* connections of the snapshot are exactly one entry: B with unclaimed 50
\* and isMutualTrust true; C is absent.
C17_EndToEnd ==
  /\ Returned
  /\ address = "0xAa"
  /\ trustRelations = << Rel("0xAa", "0xBb"), Rel("0xAa", "0xCc"), Rel("0xBb", "0xAa") >>
  /\ failures = 0
  => /\ Len(Connections) = 1
     /\ Connections[1].address = "0xBb"
     /\ Connections[1].unclaimed = 50
     /\ Connections[1].isMutualTrust = TRUE
     /\ \A i \in 1..Len(Connections) : Connections[i].address # "0xCc"
     /\ circlesData[1].trustedConnections = Connections

C17_Witness ==
  /\ Returned
  /\ address = "0xAa"
  /\ trustRelations = << Rel("0xAa", "0xBb"), Rel("0xAa", "0xCc"), Rel("0xBb", "0xAa") >>
  /\ failures = 0
  /\ Len(issued) = 17
  /\ Connections[1].lastClaim = Now - 50

\* the place in the relation list where the counterpart a is first sighted
FirstSighting(a) ==
  CHOOSE k \in 1..Len(trustRelations) :
     /\ otherAddress(trustRelations[k], address) = a
     /\ \A l \in 1..(k - 1) : otherAddress(trustRelations[l], address) # a

\* C18: whatever the outcomes of the reads, the connections of the snapshot
\* stand in the order in which their counterparts are first sighted in the
\* relation list.
C18_FirstSightingOrder ==
  Returned =>
    \A i, j \in 1..Len(Connections) :
       FirstSighting(Connections[i].address) < FirstSighting(Connections[j].address)
         => i < j

\* fetchUserData is suspended on a read of a counterpart
InLoop == pc \in {"connAvatar", "connBalance", "connHistory"}

Trimmed(input) ==
  LET inked == {k \in 1..Len(input) : input[k] # " "}
  IN  IF inked = {} THEN <<>>
      ELSE SubSeq(input, CHOOSE k \in inked : \A l \in inked : k <= l,
                         CHOOSE k \in inked : \A l \in inked : k >= l)

\* the hexadecimal digits of a string, its prefix 0x put aside
DigitsOf(str) ==
  IF Len(str) = AddrDigits + 2 /\ SubSeq(str, 1, 2) = <<"0", "x">>
  THEN SubSeq(str, 3, Len(str)) ELSE str

\* str spells the same bytes as the address addr
SameAddress(str, addr) ==
  /\ Len(DigitsOf(str)) = Len(DigitsOf(addr))
  /\ \A i \in 1..Len(DigitsOf(str)) :
        lowerChar(DigitsOf(str)[i]) = lowerChar(DigitsOf(addr)[i])

\* a well-formed hexadecimal address: AddrDigits hexadecimal digits, in one
\* case or spelled as the checksum form
WellFormedAddress(str) ==
  LET digits == DigitsOf(str)
  IN  /\ Len(digits) = AddrDigits
      /\ \A i \in 1..AddrDigits : digits[i] \in HexDigits
      /\ \/ \A i \in 1..AddrDigits : digits[i] \notin HexUpper
         \/ \A i \in 1..AddrDigits : digits[i] \notin HexLower
         \/ <<"0", "x">> \o digits = getChecksumAddress(digits)

\* a name-service handle: it contains a dot or ends in .eth
Handle(str) ==
  \/ \E i \in 1..Len(str) : str[i] = "."
  \/ Len(str) >= 4 /\ SubSeq(str, Len(str) - 3, Len(str)) = <<".", "e", "t", "h">>

\* C20: every input is classified, after its blanks are trimmed, into exactly
\* one outcome: blank is invalid with the Empty error; a well-formed
\* hexadecimal address is valid and held in its checksum form (prefixed, the
\* same bytes, accepted unchanged when given again, the same for every
\* spelling of the bytes); otherwise a handle is valid and held in lower
\* case; anything else is invalid with the InvalidAddress error.
C20_InputClassification ==
  norm.pc = "done" =>
    LET t == Trimmed(norm.input)
        r == norm.result
    IN  /\ t = <<>> =>
             r = [isValid |-> FALSE, normalizedInput |-> <<>>,
                  error |-> "Please enter an address or ENS name"]
        /\ t # <<>> /\ WellFormedAddress(t) =>
             /\ r.isValid /\ r.error = ""
             /\ Len(r.normalizedInput) = AddrDigits + 2
             /\ SubSeq(r.normalizedInput, 1, 2) = <<"0", "x">>
             /\ SameAddress(r.normalizedInput, t)
             /\ validateAndNormalizeChars(r.normalizedInput) = r
             /\ validateAndNormalizeChars(toLowerCaseChars(t)) = r
        /\ t # <<>> /\ ~WellFormedAddress(t) /\ Handle(t) =>
             /\ r.isValid /\ r.error = ""
             /\ Len(r.normalizedInput) = Len(t)
             /\ \A i \in 1..Len(t) :
                   r.normalizedInput[i] = (IF t[i] = "A" THEN "a" ELSE t[i])
        /\ t # <<>> /\ ~WellFormedAddress(t) /\ ~Handle(t) =>
             /\ ~r.isValid
             /\ r.error = "Please enter a valid Ethereum address or ENS name"
        /\ r.isValid <=> r.error = ""

C20_Witness ==
  /\ norm.pc = "done"
  /\ norm.input = <<" ", "0", "x", "a", "a", " ">>
  /\ norm.result.isValid
  /\ norm.result.normalizedInput = <<"0", "x", "A", "a">>

\* an entry matches one of the three criteria
Matches(tx) ==
  \/ tx.method = "personalMint"
  \/ tx.input \in {"0x2c6ba5ca", "0x2c6ba5ca00"}
  \/ tx.event_type = "PersonalMint"

\* the places of the matching entries of the page read
MatchingEntries == {k \in 1..Len(mint.transactions) : Matches(mint.transactions[k])}
FirstMatch == CHOOSE k \in MatchingEntries : \A l \in MatchingEntries : k <= l

\* C21 as stated: a page that was read gives the timestamp of its first
\* matching entry, and no time is returned only when no entry matches or
\* the read fails.
C21_FirstMatchOrNoneOnly ==
  mint.pc = "read" =>
    /\ mint.outcome = "ok" /\ MatchingEntries # {} =>
          mint.time = mint.transactions[FirstMatch].timestamp
    /\ mint.time = NoTime => mint.outcome # "ok" \/ MatchingEntries = {}

\* C21 amended: a page that was read gives the timestamp of its first
\* matching entry when that entry carries one; no time is returned exactly
\* when the read fails, no entry matches, or the first matching entry
\* carries no timestamp (later matches are not looked at), and when the hook
\* has no client.
C21_FirstMatchStampedOrNone ==
  /\ mint.pc = "noClient" => mint.time = NoTime
  /\ mint.pc = "read" =>
       /\ mint.outcome = "ok" /\ MatchingEntries # {}
            /\ mint.transactions[FirstMatch].timestamp # 0
            => mint.time = mint.transactions[FirstMatch].timestamp
       /\ mint.time = NoTime <=>
             \/ mint.outcome # "ok"
             \/ MatchingEntries = {}
             \/ mint.transactions[FirstMatch].timestamp = 0

C21_Witness ==
  /\ mint.pc = "read" /\ mint.outcome = "ok"
  /\ Len(mint.transactions) = 2
  /\ MatchingEntries = {1, 2}
  /\ mint.transactions[1].timestamp = 0 /\ mint.transactions[2].timestamp = Now - 3
  /\ mint.time = NoTime

\* C22: each distinct counterpart is enriched once per call: no profile,
\* balance or history read of a counterpart is issued a second time, however
\* many entries of the relation list name that counterpart.
C22_EnrichedOncePerCounterpart ==
  \A m, n \in 1..Len(issued) :
     /\ m # n
     /\ issued[m].addr # address
     => ~(issued[m].op = issued[n].op /\ issued[m].addr = issued[n].addr)

\* the reads that settled in the last step and failed
FailedNow == {r \in settled : Failed(r.outcome)}

\* C23, in every state: after a counterpart's profile read failed its name
\* is empty, after its balance reads its balance is the sum of the versions
\* that were read (0 when both failed), and every connection built has the
\* unclaimed amount, last-claim time and mutual flag the ledger's data
\* gives, whichever of its profile and balance reads failed.
C23_DegradedState ==
  /\ pc = "connBalance" =>
       connectionAvatarInfo.displayName =
         (IF FailedNow # {} THEN ""
          ELSE LedgerAvatar(otherAddress(trustRelations[idx], address)).displayName)
  /\ pc = "connHistory" =>
       LET other == otherAddress(trustRelations[idx], address)
       IN  /\ Cardinality(FailedNow) = 2 => connectionBalance = 0
           /\ connectionBalance =
                (IF \E r \in FailedNow : r.op = "getTotalBalance"
                 THEN 0 ELSE LedgerBalanceV1(other))
                + (IF \E r \in FailedNow : r.op = "getTotalBalanceV2"
                   THEN 0 ELSE LedgerBalanceV2(other))
  /\ \A i \in 1..Len(trustedConnections) :
        LET c == trustedConnections[i]
            last == lastMintOf(LedgerHistory(c.address))
        IN  /\ c.lastClaim = last
            /\ last <= Now => c.unclaimed = Min(Now - last, 168)
            /\ c.isMutualTrust = isMutualTrust(trustRelations, c.address, address)
            /\ c.balance >= 0

\* C23, in every step that builds a connection: the connection holds the
\* degraded name and balance as they are, and it is built whenever the
\* history was read and the accrual succeeded.
C23_DegradedStep ==
  pc = "connHistory" =>
    LET other == otherAddress(trustRelations[idx], address)
        built == Len(trustedConnections') = Len(trustedConnections) + 1
    IN  /\ built =>
             LET c == trustedConnections'[Len(trustedConnections')]
             IN  /\ c.address = other
                 /\ c.name = connectionAvatarInfo.displayName
                 /\ c.balance = connectionBalance
        /\ (\A r \in settled' : ~Failed(r.outcome))
             /\ lastMintOf(LedgerHistory(other)) # NoTime
             => built

EntriesOf(a) ==
  {k \in 1..Len(trustRelations) : otherAddress(trustRelations[k], address) = a}

\* some entry for a establishes mutuality: with it both directions are listed
EstablishesMutuality(a) ==
  \E k \in EntriesOf(a) :
     \E l \in 1..Len(trustRelations) :
        /\ trustRelations[l].truster = trustRelations[k].trustee
        /\ trustRelations[l].trustee = trustRelations[k].truster

\* C24, the flag: the surviving record of a counterpart is mutual exactly
\* when some entry for it establishes mutuality.
C24_FlagIsOrOverEntries ==
  Returned =>
    \A i \in 1..Len(Connections) :
       Connections[i].isMutualTrust <=> EstablishesMutuality(Connections[i].address)

\* C24, the position: a counterpart stands where its first occurrence puts
\* it, before every counterpart of the snapshot that occurs first later on.
C24_PositionOfFirstOccurrence ==
  Returned =>
    \A i, j \in 1..Len(Connections) :
       i < j =>
         \E k \in EntriesOf(Connections[i].address) :
            \A l \in EntriesOf(Connections[j].address) : k < l

\* C24: in the deduplicated result a counterpart has the position of its
\* first occurrence and the OR of the mutuality of all its entries.
C24_FirstPositionOrFlag == C24_PositionOfFirstOccurrence /\ C24_FlagIsOrOverEntries

\* C25: in every snapshot returned the root's unclaimed amount and every
\* connection's lie in 0 .. 168 and every balance is at least 0, whatever
\* reads failed.
C25_AmountsInRange ==
  Returned =>
    /\ result.data[1].unclaimed \in 0..(7 * 24 * 1)
    /\ result.data[1].totalBalance >= 0
    /\ \A i \in 1..Len(Connections) :
          /\ Connections[i].unclaimed \in 0..(7 * 24 * 1)
          /\ Connections[i].balance >= 0

C25_Witness ==
  /\ Returned /\ failures = MaxFail
  /\ result.data[1].unclaimed = 168
  /\ userLastClaimTime = Now - 180
  /\ Len(Connections) = 2

\* an accrual failure as the claim counts it: no claim history, or a
\* last-claim time in the future
AccrualFails(lastClaimTime) == lastClaimTime = NoTime \/ lastClaimTime > Now

\* C26, the rejection: a call that rejected did so on the root's profile read
\* or on the relation read, before any accrual was computed.
C26_NeverRejects ==
  pc = "rejected" =>
    /\ rootOutcome.avatar # "ok" \/ FailedRead(rootOutcome.trust)
    /\ rootOutcome.history = "unread" /\ idx = 0 /\ trustedConnections = <<>>

\* C26, the outcome: in the snapshot returned no connection has a failing
\* accrual, and a root whose accrual fails has the degraded amount 0.
C26_ExcludedOrDegraded ==
  Returned =>
    /\ \A i \in 1..Len(Connections) : ~AccrualFails(Connections[i].lastClaim)
    /\ AccrualFails(userLastClaimTime) => result.data[1].unclaimed = 0

\* C26: an accrual failure of the root or of a counterpart never makes the
\* call reject; it becomes an exclusion or a degraded value.
C26_AccrualFailureContained == C26_NeverRejects /\ C26_ExcludedOrDegraded

\* the messages validateAndNormalizeInput gives for the invalid inputs
InvalidInputErrors ==
  { validateAndNormalizeInput(i).error :
      i \in { j \in Inputs : ~validateAndNormalizeInput(j).isValid } }

\* while a validation message is displayed no call has been started: nothing
\* was read and neither loading flag is up
C27_InvalidState ==
  error \in InvalidInputErrors =>
    /\ pc = "idle" /\ issued = <<>> /\ inflight = {}
    /\ ~isLoading /\ ~hookIsLoading

\* the step that displays a validation message starts no call, issues no
\* read and leaves both loading flags as they were
C27_InvalidStep ==
  (error' \in InvalidInputErrors /\ error' # error) =>
    /\ pc = "idle" /\ pc' = "idle"
    /\ issued' = issued /\ inflight' = inflight
    /\ isLoading' = isLoading /\ hookIsLoading' = hookIsLoading
    /\ UNCHANGED <<circlesData, address, result>>

\* C27: for an invalid identifier handleAddressSubmit sets the error at once;
\* fetchUserData is not called, no remote read is issued and the loading flag
\* is never raised.
C27_InvalidSurfacesAtOnce == []C27_InvalidState /\ [][C27_InvalidStep]_vars

\* the malformed identifier "xyz" was submitted to a ready component
C27_Witness ==
  /\ isInitialized
  /\ error = "Please enter a valid Ethereum address or ENS name"
  /\ pc = "idle" /\ issued = <<>> /\ ~isLoading

\* the most recently started lookup
Latest == calls[Len(calls)]

\* C28: when two lookups overlapped and all have settled, circlesData is the
\* snapshot of the most recently started one, whatever the order of
\* completion.
C28_LatestStartedWins ==
  (Len(calls) >= 2 /\ InFlight = {} /\ Latest.overlaps /\ Latest.state = "resolved")
    => circlesData = Latest.data

\* C29, first half: a loading flag is up while a call is in flight
C29_UpWhileInFlight == InFlight # {} => (isLoading \/ hookIsLoading)

\* C29, second half: both loading flags are down when no call is in flight
C29_DownWhenSettled == InFlight = {} => (~isLoading /\ ~hookIsLoading)

\* C29: the loading indicator is true in every state in which a
\* fetchUserData call is in flight, overlapping calls included, and false
\* once none is.
C29_LoadingIffInFlight == C29_UpWhileInFlight /\ C29_DownWhenSettled

\* a step in which a call awaited by handleAddressSubmit rejects
RejectsSubmit ==
  \E i \in 1..Len(calls) :
    /\ calls[i].handler = "submit" /\ calls[i].state = "inflight"
    /\ calls'[i].state = "rejected"

\* a step in which handleAddressSubmit returns before starting a call
ReturnsEarly ==
  /\ calls' = calls /\ error' # error
  /\ error' \in InvalidInputErrors \cup {"Circles SDK not initialized"}

C30_FailedStep ==
  /\ RejectsSubmit =>
       /\ circlesData' = circlesData /\ isInitialized' = isInitialized
       /\ ~isLoading'
  /\ ReturnsEarly =>
       /\ circlesData' = circlesData /\ isInitialized' = isInitialized
       /\ isLoading' = isLoading /\ hookIsLoading' = hookIsLoading
       /\ hookError' = hookError

====
